---------------------------- MODULE Spec2Model ----------------------------
(***************************************************************************)
(* LogSplitter Monitor: the binary telemetry decoder with its per-type     *)
(* sequence tracking (utils/mqtt_protobuf_decoder.py), the database        *)
(* logger that stores what the decoder returns                             *)
(* (utils/protobuf_database_logger.py), the inactivity-timeout window      *)
(* identifier (utils/archived/basket_exchange_metrics.py), the window     *)
(* classifier and confidence score (utils/basket_metrics_dashboard.py) and *)
(* the dashboard's analysis of the logger's table, which calls them.       *)
(*                                                                         *)
(* Python's None is the record [kind |-> "None"]; a bytes object is a      *)
(* sequence of numbers 0..255, so Python's data[i] is data[i + 1] here.    *)
(* Times of the correlator are whole seconds.  Confidence is kept in       *)
(* hundredths (0.8 is 80): the code's sums of 0.8 and +-0.2 differ from    *)
(* these by at most one unit in the last place, upward, and cross none of  *)
(* the thresholds 0.6 and 1.0.                                             *)
(***************************************************************************)
EXTENDS Integers, Sequences, FiniteSets, TLC

VARIABLES
    \* LogSplitterProtobufDecoder
    last_sequence,      \* dict: message type -> last sequence number seen
    messages_received,
    messages_decoded,
    decode_errors,
    binary_data,        \* the argument of the latest decode_message call
    result,             \* what the latest decode_message call returned
    seq_reports,        \* per call that reached the sequence check: its branch
    console,            \* the diagnostics the latest call printed
    call_log,           \* per call of decode_message: its argument and result
    chan_pc,            \* per channel: where its call of decode_message stands
    chan_data,          \* per channel: the frame its call was given
    \* ProtobufDatabaseLogger
    telemetry,          \* rows INSERTed into the telemetry table
    db_writes,
    \* BasketExchangeAnalyzer._identify_exchange_windows
    operator_events,        \* the argument: DIGITAL_INPUT events in time order
    event_index,            \* events the for loop has consumed
    current_window_start,
    last_signal_time,
    windows,
    identify_pc,            \* "idle", "loop" or "done" (returned)
    \* BasketMetricsDashboard._classify_exchange and _calculate_confidence
    operator_signals,
    sequence_events,
    relay_events,
    exchange_type,
    confidence,             \* in hundredths
    exchange,               \* what _analyze_exchange_window returned
    classify_pc,            \* "idle", "ready", "returned" (no signals) or "classified"
    \* BasketMetricsDashboard.analyze_basket_exchanges
    db_rows,                \* the telemetry table the dashboard reads
    dash_operator_events,   \* the SPLITTER_OPERATOR rows it fetched
    exchange_windows,
    window_index,           \* windows the for loop has analyzed
    exchanges,              \* the list it returns
    analyze_pc,             \* "idle", "start", "windows" or "done"
    \* LogSplitterAnalyzer.find_sequences
    found_events,           \* the sequence events get_sequence_events returned
    found_index,            \* events the for loop has consumed
    current_sequence,       \* the open sequence, or None
    sequences,              \* the list it returns
    find_pc                 \* "idle", "loop" or "done"

decoderVars == <<last_sequence, messages_received, messages_decoded,
                 decode_errors, binary_data, result, seq_reports, console,
                 call_log, chan_pc, chan_data, telemetry, db_writes>>

identifyVars == <<operator_events, event_index, current_window_start,
                  last_signal_time, windows, identify_pc>>

classifyVars == <<operator_signals, sequence_events, relay_events,
                  exchange_type, confidence, exchange, classify_pc>>

dashVars == <<db_rows, dash_operator_events, exchange_windows,
              window_index, exchanges, analyze_pc>>

findVars == <<found_events, found_index, current_sequence, sequences, find_pc>>

analyzeVars == <<dashVars, findVars>>

vars == <<decoderVars, identifyVars, classifyVars, analyzeVars>>

----------------------------------------------------------------------------
(* Bounds of the model *)

\* decode_message calls per run of the logger
MaxCalls == 2
\* decode_message calls per run of the sequence-tracking runs
MaxTrackerCalls == 4
\* frames two channels deliver to one decoder
MaxChannelFrames == 3
\* DIGITAL_INPUT events handed to the window identifier
MaxEvents == 3
\* operator signals, sequence events and relay events inside one window
MaxSignals == 2
MaxSequenceEvents == 3
MaxRelayEvents == 2
\* rows of the telemetry table the dashboard reads
MaxRows == 3
\* sequence events find_sequences is given
MaxFound == 4

----------------------------------------------------------------------------
(* Python values *)

None == [kind |-> "None"]

Min(a, b) == IF a < b THEN a ELSE b
Max(a, b) == IF a > b THEN a ELSE b

\* data[lo:hi] of Python, lo and hi 0-based, hi exclusive, both clipped
Slice(data, lo, hi) == SubSeq(data, lo + 1, Min(hi, Len(data)))

\* Bits that counts the shift from the most significant bit of the byte
BitsMsbFirst(flags, shift, width) ==
    (flags \div (2 ^ (8 - shift - width))) % (2 ^ width)

\* flags & mask-of-width-bits after a right shift
Bits(flags, shift, width) == (flags \div (2 ^ shift)) % (2 ^ width)

\* U32 that reads the four bytes most significant first
U32BigEndian(b) == 16777216 * b[1] + 65536 * b[2] + 256 * b[3] + b[4]

\* struct.unpack('<H', ...) and struct.unpack('<L', ...)
U16(b) == b[1] + 256 * b[2]
U32(b) == b[1] + 256 * b[2] + 65536 * b[3] + 16777216 * b[4]

----------------------------------------------------------------------------
(* Name lookups of the decoder *)

get_type_name(msg_type) ==
    CASE msg_type = 16 -> "DIGITAL_INPUT"
      [] msg_type = 17 -> "DIGITAL_OUTPUT"
      [] msg_type = 18 -> "RELAY_EVENT"
      [] msg_type = 19 -> "PRESSURE"
      [] msg_type = 20 -> "SYSTEM_ERROR"
      [] msg_type = 21 -> "SAFETY_EVENT"
      [] msg_type = 22 -> "SYSTEM_STATUS"
      [] msg_type = 23 -> "SEQUENCE_EVENT"
      [] OTHER -> "UNKNOWN_0xNN"

get_input_type_name(input_type) ==
    CASE input_type = 0 -> "UNKNOWN"
      [] input_type = 1 -> "MANUAL_EXTEND"
      [] input_type = 2 -> "MANUAL_RETRACT"
      [] input_type = 3 -> "SAFETY_CLEAR"
      [] input_type = 4 -> "SEQUENCE_START"
      [] input_type = 5 -> "LIMIT_EXTEND"
      [] input_type = 6 -> "LIMIT_RETRACT"
      [] input_type = 7 -> "SPLITTER_OPERATOR"
      [] input_type = 8 -> "EMERGENCY_STOP"
      [] OTHER -> "UNKNOWN_n"

get_mill_lamp_pattern_name(pattern) ==
    CASE pattern = 0 -> "OFF"
      [] pattern = 1 -> "SOLID"
      [] pattern = 2 -> "SLOW_BLINK"
      [] pattern = 3 -> "FAST_BLINK"
      [] OTHER -> "UNKNOWN_n"

get_relay_type_name(relay_type) ==
    CASE relay_type = 0 -> "UNKNOWN"
      [] relay_type = 1 -> "HYDRAULIC_EXTEND"
      [] relay_type = 2 -> "HYDRAULIC_RETRACT"
      [] relay_type = 7 -> "OPERATOR_BUZZER"
      [] relay_type = 8 -> "ENGINE_STOP"
      [] relay_type = 9 -> "POWER_CONTROL"
      [] OTHER -> "RESERVED_n"

get_sequence_state_name(state) ==
    CASE state = 0 -> "IDLE"
      [] state = 1 -> "EXTENDING"
      [] state = 2 -> "EXTENDED"
      [] state = 3 -> "RETRACTING"
      [] state = 4 -> "RETRACTED"
      [] state = 5 -> "PAUSED"
      [] state = 6 -> "ERROR_STATE"
      [] OTHER -> "UNKNOWN_n"

\* The keys of self.message_handlers
message_handlers == {16, 17, 18, 19, 20, 21, 22, 23}

----------------------------------------------------------------------------
(* Payload handlers.  Each returns None (the payload is shorter than the   *)
(* handler needs), [kind |-> "raise"] (struct.unpack is given a buffer of  *)
(* another size than its format and raises struct.error) or the decoded    *)
(* dict.                                                                   *)

Raise == [kind |-> "raise"]

decode_digital_input(payload) ==
    IF Len(payload) < 4 THEN None
    ELSE IF Len(payload) # 4 THEN Raise
    ELSE LET pin == payload[1]
             flags == payload[2]
             debounce_time == U16(Slice(payload, 2, 4))
         IN [kind |-> "digital_input",
             pin |-> pin,
             state |-> Bits(flags, 0, 1) = 1,
             state_name |-> IF Bits(flags, 0, 1) = 1 THEN "ACTIVE" ELSE "INACTIVE",
             is_debounced |-> Bits(flags, 1, 1) = 1,
             input_type |-> Bits(flags, 2, 6),
             input_type_name |-> get_input_type_name(Bits(flags, 2, 6)),
             debounce_time_ms |-> debounce_time]

decode_digital_output(payload) ==
    IF Len(payload) < 3 THEN None
    ELSE IF Len(payload) # 3 THEN Raise
    ELSE LET pin == payload[1]
             flags == payload[2]
         IN [kind |-> "digital_output",
             pin |-> pin,
             state |-> Bits(flags, 0, 1) = 1,
             output_type |-> Bits(flags, 1, 3),
             mill_lamp_pattern |-> Bits(flags, 4, 4)]

decode_relay_event(payload) ==
    IF Len(payload) < 3 THEN None
    ELSE IF Len(payload) # 3 THEN Raise
    ELSE LET relay_number == payload[1]
             flags == payload[2]
         IN [kind |-> "relay_event",
             relay_number |-> relay_number,
             state |-> Bits(flags, 0, 1) = 1,
             is_manual |-> Bits(flags, 1, 1) = 1,
             success |-> Bits(flags, 2, 1) = 1,
             relay_type |-> Bits(flags, 3, 5),
             relay_type_name |-> get_relay_type_name(Bits(flags, 3, 5))]

\* pressure_psi is kept as the four bytes struct.unpack('<f') reinterprets.
decode_pressure(payload) ==
    IF Len(payload) < 8 THEN None
    ELSE LET sensor_pin == payload[1]
             flags == payload[2]
             raw_value == U16(Slice(payload, 2, 4))
         IN [kind |-> "pressure",
             sensor_pin |-> sensor_pin,
             is_fault |-> Bits(flags, 0, 1) = 1,
             pressure_type |-> Bits(flags, 1, 7),
             raw_adc_value |-> raw_value,
             pressure_psi |-> Slice(payload, 4, 8)]

\* bytes.decode('ascii', errors='ignore'): bytes above 127 are dropped
RECURSIVE AsciiIgnore(_)
AsciiIgnore(bytes) ==
    IF bytes = <<>> THEN <<>>
    ELSE IF Head(bytes) > 127 THEN AsciiIgnore(Tail(bytes))
    ELSE <<Head(bytes)>> \o AsciiIgnore(Tail(bytes))

\* str.rstrip('\x00')
RECURSIVE RstripNul(_)
RstripNul(chars) ==
    IF chars = <<>> THEN <<>>
    ELSE IF chars[Len(chars)] = 0 THEN RstripNul(SubSeq(chars, 1, Len(chars) - 1))
    ELSE chars

\* _decode_system_error that refuses a length byte beyond the payload
decode_system_error_strict(payload) ==
    IF Len(payload) < 3 THEN None
    ELSE IF payload[3] > Len(payload) - 3 THEN Raise
    ELSE [kind |-> "system_error",
          error_code |-> payload[1],
          acknowledged |-> Bits(payload[2], 0, 1) = 1,
          active |-> Bits(payload[2], 1, 1) = 1,
          severity |-> Bits(payload[2], 2, 2),
          description |-> RstripNul(AsciiIgnore(Slice(payload, 3, 3 + payload[3])))]

decode_system_error(payload) ==
    IF Len(payload) < 3 THEN None
    ELSE LET error_code == payload[1]
             flags == payload[2]
             desc_length == payload[3]
             description ==
                 IF desc_length > 0 /\ Len(payload) > 3
                 THEN RstripNul(AsciiIgnore(
                          Slice(payload, 3, 3 + Min(desc_length, Len(payload) - 3))))
                 ELSE <<>>
         IN [kind |-> "system_error",
             error_code |-> error_code,
             acknowledged |-> Bits(flags, 0, 1) = 1,
             active |-> Bits(flags, 1, 1) = 1,
             severity |-> Bits(flags, 2, 2),
             description |-> description]

decode_safety_event(payload) ==
    IF Len(payload) < 3 THEN None
    ELSE IF Len(payload) # 3 THEN Raise
    ELSE LET event_type == payload[1]
             flags == payload[2]
         IN [kind |-> "safety_event",
             event_type |-> event_type,
             is_active |-> Bits(flags, 0, 1) = 1]

decode_system_status(payload) ==
    IF Len(payload) < 12 THEN None
    ELSE IF Len(payload) # 12 THEN Raise
    ELSE LET flags == payload[10]
         IN [kind |-> "system_status",
             uptime_ms |-> U32(Slice(payload, 0, 4)),
             loop_frequency_hz |-> U16(Slice(payload, 4, 6)),
             free_memory_bytes |-> U16(Slice(payload, 6, 8)),
             active_error_count |-> payload[9],
             safety_active |-> Bits(flags, 0, 1) = 1,
             estop_active |-> Bits(flags, 1, 1) = 1,
             sequence_state |-> Bits(flags, 2, 4),
             sequence_state_name |-> get_sequence_state_name(Bits(flags, 2, 4)),
             mill_lamp_pattern |-> Bits(flags, 6, 2),
             mill_lamp_pattern_name |-> get_mill_lamp_pattern_name(Bits(flags, 6, 2))]

decode_sequence_event(payload) ==
    IF Len(payload) < 4 THEN None
    ELSE IF Len(payload) # 4 THEN Raise
    ELSE [kind |-> "sequence_event",
          event_type |-> payload[1],
          step_number |-> payload[2],
          elapsed_time_ms |-> U16(Slice(payload, 2, 4))]

\* self.message_handlers[msg_type](payload)
HandlePayload(msg_type, payload) ==
    CASE msg_type = 16 -> decode_digital_input(payload)
      [] msg_type = 17 -> decode_digital_output(payload)
      [] msg_type = 18 -> decode_relay_event(payload)
      [] msg_type = 19 -> decode_pressure(payload)
      [] msg_type = 20 -> decode_system_error(payload)
      [] msg_type = 21 -> decode_safety_event(payload)
      [] msg_type = 22 -> decode_system_status(payload)
      [] msg_type = 23 -> decode_sequence_event(payload)

----------------------------------------------------------------------------
(* decode_message *)

\* expected_seq with the wrap of the one-byte counter left out
expected_seq_nowrap(last) == last + 1

\* expected_seq = (self.last_sequence[msg_type] + 1) % 256
expected_seq(last) == (last + 1) % 256

\* The "Check for missing messages" branch taken for one frame.  The code
\* prints only in the Gap branch; First and Continues are silent.
SequenceCheck(ls, msg_type, sequence) ==
    IF msg_type \in DOMAIN ls
    THEN IF sequence # expected_seq(ls[msg_type])
         THEN [type |-> msg_type, sequence |-> sequence, verdict |-> "Gap",
               expected |-> expected_seq(ls[msg_type])]
         ELSE [type |-> msg_type, sequence |-> sequence, verdict |-> "Continues",
               expected |-> expected_seq(ls[msg_type])]
    ELSE [type |-> msg_type, sequence |-> sequence, verdict |-> "First",
          expected |-> sequence]

\* SetLastSequence that keeps the old entry when the frame is out of sequence
SetLastSequenceInOrderOnly(ls, msg_type, sequence) ==
    IF msg_type \in DOMAIN ls /\ sequence # (ls[msg_type] + 1) % 256
    THEN ls
    ELSE [t \in (DOMAIN ls) \cup {msg_type} |-> IF t = msg_type THEN sequence ELSE ls[t]]

\* self.last_sequence[msg_type] = sequence
SetLastSequence(ls, msg_type, sequence) ==
    [t \in (DOMAIN ls) \cup {msg_type} |-> IF t = msg_type THEN sequence ELSE ls[t]]

\* TooShort with the minimum one byte lower
TooShortSix(data) == Len(data) < 6

\* "if len(binary_data) < 7:  # Minimum message size"
TooShort(data) == Len(data) < 7

\* The header check "if size_byte != len(binary_data)"
SizeMismatch(data) == data[1] # Len(data)

\* Message with the outcome of the sequence check put into the dict
MessageWithGap(data, decoded_payload) ==
    [kind |-> "message",
     size |-> data[1],
     type |-> data[2],
     type_name |-> get_type_name(data[2]),
     sequence |-> data[3],
     timestamp |-> U32(Slice(data, 3, 7)),
     payload |-> decoded_payload,
     raw_payload |-> Slice(data, 7, Len(data)),
     gap |-> SequenceCheck(last_sequence, data[2], data[3]).verdict = "Gap"]

\* The dict decode_message returns
Message(data, decoded_payload) ==
    [kind |-> "message",
     size |-> data[1],
     type |-> data[2],
     type_name |-> get_type_name(data[2]),
     sequence |-> data[3],
     timestamp |-> U32(Slice(data, 3, 7)),
     payload |-> decoded_payload,
     raw_payload |-> Slice(data, 7, Len(data))]

decode_message(data) ==
    /\ binary_data' = data
    /\ messages_received' = messages_received + 1
    /\ IF TooShort(data)
       THEN /\ decode_errors' = decode_errors + 1
            /\ console' = <<"ERROR: Message too short">>
            /\ result' = None
            /\ UNCHANGED <<last_sequence, seq_reports, messages_decoded>>
       ELSE IF SizeMismatch(data)
       THEN /\ decode_errors' = decode_errors + 1
            /\ console' = <<"ERROR: Size mismatch">>
            /\ result' = None
            /\ UNCHANGED <<last_sequence, seq_reports, messages_decoded>>
       ELSE LET msg_type == data[2]
                sequence == data[3]
                payload == Slice(data, 7, Len(data))
                report == SequenceCheck(last_sequence, msg_type, sequence)
                gap == IF report.verdict = "Gap"
                       THEN <<"WARNING: Sequence gap">> ELSE <<>>
                decoded_payload == IF msg_type \in message_handlers
                                   THEN HandlePayload(msg_type, payload)
                                   ELSE None
            IN /\ seq_reports' = Append(seq_reports, report)
               /\ last_sequence' = SetLastSequence(last_sequence, msg_type, sequence)
               /\ IF decoded_payload = Raise
                  THEN /\ decode_errors' = decode_errors + 1
                       /\ console' = gap \o <<"ERROR: Decode exception">>
                       /\ result' = None
                       /\ UNCHANGED messages_decoded
                  ELSE /\ messages_decoded' =
                              IF decoded_payload # None
                              THEN messages_decoded + 1 ELSE messages_decoded
                       /\ console' =
                              IF msg_type \in message_handlers THEN gap
                              ELSE gap \o <<"WARNING: Unknown message type">>
                       /\ result' = Message(data, decoded_payload)
                       /\ UNCHANGED decode_errors
    /\ call_log' = Append(call_log, [data |-> data, result |-> result'])
    /\ UNCHANGED <<chan_pc, chan_data>>

\* Two callers of one decoder, each an MQTT client's network thread
Channels == {1, 2}

\* decode_message called from a channel, up to the check for missing
\* messages (lines 54-80): the frame is counted, last_sequence is read and
\* compared and the warning printed; the thread may be switched out before
\* the assignment of line 81.  The frames given here pass the length and
\* size checks and their handler decodes them.
ChannelCheck(c, data) ==
    /\ chan_pc[c] = "idle"
    /\ chan_pc' = [chan_pc EXCEPT ![c] = "checked"]
    /\ chan_data' = [chan_data EXCEPT ![c] = data]
    /\ binary_data' = data
    /\ messages_received' = messages_received + 1
    /\ LET report == SequenceCheck(last_sequence, data[2], data[3])
       IN /\ seq_reports' = Append(seq_reports, report)
          /\ console' = IF report.verdict = "Gap"
                        THEN <<"WARNING: Sequence gap">> ELSE <<>>
    /\ UNCHANGED <<last_sequence, messages_decoded, decode_errors, result, call_log>>

\* The rest of the call (lines 81-101): last_sequence is assigned, the
\* payload decoded and the message returned
ChannelWrite(c) ==
    /\ chan_pc[c] = "checked"
    /\ LET data == chan_data[c]
       IN /\ last_sequence' = SetLastSequence(last_sequence, data[2], data[3])
          /\ result' = Message(data, HandlePayload(data[2], Slice(data, 7, Len(data))))
          /\ call_log' = Append(call_log, [data |-> data, result |-> result'])
    /\ messages_decoded' = messages_decoded + 1
    /\ chan_pc' = [chan_pc EXCEPT ![c] = "idle"]
    /\ chan_data' = [chan_data EXCEPT ![c] = <<>>]
    /\ UNCHANGED <<binary_data, messages_received, decode_errors, seq_reports, console>>

----------------------------------------------------------------------------
(* ProtobufDatabaseLogger *)

\* json.dumps of the empty dict that "payload or {}" yields for None
EmptyDict == [kind |-> "{}"]

\* The row store_protobuf_message INSERTs
Row(decoded_message, raw_size) ==
    [controller_timestamp |-> decoded_message.timestamp,
     message_type |-> decoded_message.type,
     message_type_name |-> decoded_message.type_name,
     sequence_id |-> decoded_message.sequence,
     payload_json |-> IF decoded_message.payload = None THEN EmptyDict
                      ELSE decoded_message.payload,
     raw_size |-> raw_size]

\* _handle_protobuf_message: decode, and store whatever is not None.  The
\* periodic statistics of store_protobuf_message start at 100 writes, beyond
\* the calls a run makes here; a failing INSERT is not modelled.
handle_protobuf_message(data) ==
    /\ decode_message(data)
    /\ IF result' # None
       THEN /\ telemetry' = Append(telemetry, Row(result', Len(data)))
            /\ db_writes' = db_writes + 1
       ELSE UNCHANGED <<telemetry, db_writes>>

----------------------------------------------------------------------------
(* Frames on the wire *)

\* The timestamp bytes of the test fixtures: 12345678 ms, little-endian
FixtureTimestamp == <<78, 97, 188, 0>>

\* Payload bytes per message type, after the fixtures of tests/conftest.py;
\* a frame carries a prefix of these.
PayloadBytes(msg_type) ==
    CASE msg_type = 16 -> <<6, 22, 10, 0, 0>>
      [] msg_type = 17 -> <<9, 3, 0>>
      [] msg_type = 18 -> <<1, 13, 0, 0>>
      [] msg_type = 19 -> <<0, 0, 0, 3, 0, 0, 122, 68, 0>>
      [] msg_type = 20 -> <<16, 9, 4, 67, 111, 0>>
      [] msg_type = 21 -> <<1, 1, 0>>
      [] msg_type = 22 -> <<206, 41, 0, 0, 100, 0, 21, 56, 2, 1, 0, 0>>
      [] msg_type = 23 -> <<1, 0, 0, 0>>
      [] OTHER -> <<1, 2, 3>>

\* A frame with the given size byte
Frame(size_byte, msg_type, sequence, n) ==
    <<size_byte, msg_type, sequence>> \o FixtureTimestamp
        \o SubSeq(PayloadBytes(msg_type), 1, n)

\* <<type, payload length>> of the frames a run draws from: each type at the
\* length its handler needs, and the types below at one byte less and more
FrameShapes ==
    {<<16, 3>>, <<16, 4>>, <<16, 5>>, <<17, 3>>, <<18, 2>>, <<18, 3>>, <<18, 4>>,
     <<19, 7>>, <<19, 8>>, <<19, 9>>, <<20, 2>>, <<20, 3>>, <<20, 6>>,
     <<21, 3>>, <<22, 12>>, <<23, 4>>, <<32, 3>>}

\* Buffers shorter than a header: the one of test_minimum_message_size, the
\* empty buffer and a buffer of 6 bytes
ShortBuffers == {<<5, 16, 1>>, <<>>, <<5, 16, 1, 78, 97, 188>>}

\* A SYSTEM_ERROR frame of 35 bytes (a payload of 28 bytes, one more than
\* the 3 + 24 bytes of the longest message) with the given size byte
LongFrame(size_byte) ==
    <<size_byte, 20, 1>> \o FixtureTimestamp \o <<16, 9, 4, 67, 111>>
        \o [i \in 1..23 |-> 0]

\* Frames whose size byte counts the whole frame, frames whose size byte
\* leaves itself out, buffers shorter than a header and over-long frames
Frames ==
    {Frame(7 + sh[2], sh[1], s, sh[2]) : sh \in FrameShapes, s \in {1, 5}}
    \cup {Frame(6 + sh[2], sh[1], s, sh[2]) : sh \in FrameShapes, s \in {1, 5}}
    \cup ShortBuffers
    \cup {LongFrame(35), LongFrame(34)}

\* The frames of test_system_status_flags and their like for the two other
\* types with bit fields: the fixture's payload around the given flags byte
FlagFrame(msg_type, flags) ==
    CASE msg_type = 16 -> <<11, 16, 1>> \o FixtureTimestamp \o <<6, flags, 10, 0>>
      [] msg_type = 18 -> <<10, 18, 1>> \o FixtureTimestamp \o <<1, flags, 0>>
      [] msg_type = 22 -> <<19, 22, 1>> \o FixtureTimestamp
                              \o <<0, 0, 0, 0, 100, 0, 0, 16, 0, flags, 0, 0>>

\* Description bytes: NUL, 'A' and a byte outside ASCII
DescriptionBytes == {0, 65, 200}

\* A SYSTEM_ERROR frame with the given length byte and trailing bytes
ErrorFrame(desc_length, desc) ==
    <<10 + Len(desc), 20, 1>> \o FixtureTimestamp \o <<16, 9, desc_length>> \o desc

\* DIGITAL_INPUT frames every check passes, with neighbouring sequence numbers
ChannelFrames == {Frame(11, 16, s, 4) : s \in {5, 6, 7}}

\* Frames every handler decodes, of two types, over sequence numbers that
\* meet the wrap of the counter
TrackerFrames ==
    {Frame(11, 16, s, 4) : s \in {0, 1, 5, 6, 7, 9, 255}}
    \cup {Frame(10, 18, s, 3) : s \in {0, 1, 5, 6, 7, 9, 255}}

----------------------------------------------------------------------------
(* BasketExchangeAnalyzer._identify_exchange_windows                       *)
(* (archived/basket_exchange_metrics.py): windows by inactivity timeout.   *)
(* A datetime is a number of seconds >= 0; NoneTime stands for the None    *)
(* the two loop variables start with.                                      *)

NoneTime == -1

\* self.operator_signal_timeout
operator_signal_timeout == 60
\* timedelta(seconds=30) before the first signal of a window
WindowLead == 30
\* timedelta(seconds=120) after the last signal of a window
WindowTail == 120

\* IsActiveOperatorSignal that leaves the kind of the input out
IsActiveSignalAnyInput(event) ==
    event.payload.state = TRUE

\* IsActiveOperatorSignal that leaves the state of the signal out
IsOperatorSignalAnyState(event) ==
    event.payload.input_type_name = "SPLITTER_OPERATOR"

\* "SPLITTER_OPERATOR signals that are active (state=True)"
IsActiveOperatorSignal(event) ==
    /\ event.payload.input_type_name = "SPLITTER_OPERATOR"
    /\ event.payload.state = TRUE

\* WithinTimeout with the tie (a gap equal to the timeout) excluded
WithinTimeoutStrict(timestamp, last) == timestamp - last < 60

\* (timestamp - last_signal_time).total_seconds() <= self.operator_signal_timeout
WithinTimeout(timestamp, last) == timestamp - last <= operator_signal_timeout

\* ClosedWindow that measures the end from the first signal of the window
ClosedWindowFromFirst(window_first, window_last) ==
    <<window_first - 30, window_first + 120>>

\* (window_start, window_end) of a window that closes
ClosedWindow(window_first, window_last) ==
    <<window_first - WindowLead, window_last + WindowTail>>

\* One iteration of "for event in operator_events"
IdentifyStep ==
    /\ identify_pc = "loop"
    /\ event_index < Len(operator_events)
    /\ event_index' = event_index + 1
    /\ LET event == operator_events[event_index + 1]
           timestamp == event.timestamp
       IN IF IsActiveOperatorSignal(event)
          THEN IF current_window_start = NoneTime
               THEN /\ current_window_start' = timestamp
                    /\ last_signal_time' = timestamp
                    /\ UNCHANGED windows
               ELSE IF WithinTimeout(timestamp, last_signal_time)
               THEN /\ last_signal_time' = timestamp
                    /\ UNCHANGED <<current_window_start, windows>>
               ELSE /\ windows' = Append(windows,
                            ClosedWindow(current_window_start, last_signal_time))
                    /\ current_window_start' = timestamp
                    /\ last_signal_time' = timestamp
          ELSE UNCHANGED <<current_window_start, last_signal_time, windows>>
    /\ UNCHANGED <<operator_events, identify_pc>>
    /\ UNCHANGED <<decoderVars, classifyVars, analyzeVars>>

\* IdentifyReturn that returns the closed windows only and drops the open one
IdentifyReturnDropOpen ==
    /\ identify_pc = "loop"
    /\ event_index = Len(operator_events)
    /\ identify_pc' = "done"
    /\ UNCHANGED <<operator_events, event_index, current_window_start,
                   last_signal_time, windows>>
    /\ UNCHANGED <<decoderVars, classifyVars, analyzeVars>>

\* After the loop (or at once for an empty list): "Close final window if
\* exists" and return
IdentifyReturn ==
    /\ identify_pc = "loop"
    /\ event_index = Len(operator_events)
    /\ windows' = IF current_window_start # NoneTime /\ last_signal_time # NoneTime
                  THEN Append(windows,
                           ClosedWindow(current_window_start, last_signal_time))
                  ELSE windows
    /\ identify_pc' = "done"
    /\ UNCHANGED <<operator_events, event_index, current_window_start,
                   last_signal_time>>
    /\ UNCHANGED <<decoderVars, classifyVars, analyzeVars>>

\* The events the analyzer reads: ORDER BY received_timestamp ASC
EventTimes == {0, 20, 80, 81, 100, 141}

EventPayloads ==
    {[input_type_name |-> "SPLITTER_OPERATOR", state |-> TRUE],
     [input_type_name |-> "SPLITTER_OPERATOR", state |-> FALSE],
     [input_type_name |-> "LIMIT_EXTEND", state |-> TRUE]}

Events == [timestamp : EventTimes, payload : EventPayloads]

InTimeOrder(events) ==
    \A i \in 1..(Len(events) - 1) : events[i].timestamp <= events[i + 1].timestamp

EventLists ==
    UNION {{events \in [1..n -> Events] : InTimeOrder(events)} : n \in 0..MaxEvents}

----------------------------------------------------------------------------
(* BasketMetricsDashboard._classify_exchange and _calculate_confidence     *)
(* (basket_metrics_dashboard.py)                                           *)

\* len(active_signals): the signals whose payload state_name is 'ACTIVE'
ActiveSignals(signals) ==
    SelectSeq(signals, LAMBDA sig : sig.payload.state_name = "ACTIVE")

\* classify_exchange that takes a single sequence event for a sequence
classify_exchange_any_sequence(signals, seq_events, rel_events) ==
    IF seq_events # <<>>
    THEN IF rel_events # <<>> THEN "MIXED" ELSE "SEQUENCE"
    ELSE IF rel_events # <<>> THEN "MANUAL"
    ELSE "BUTTON_ONLY"

classify_exchange(signals, seq_events, rel_events) ==
    IF seq_events # <<>> /\ Len(seq_events) >= 2
    THEN IF rel_events # <<>> THEN "MIXED" ELSE "SEQUENCE"
    ELSE IF rel_events # <<>> THEN "MANUAL"
    ELSE "BUTTON_ONLY"

\* ClampConfidence without the upper limit
ClampConfidenceNoCeiling(c) == IF c < 60 THEN 60 ELSE c

\* min(1.0, max(0.6, confidence))
ClampConfidence(c) == Min(100, Max(60, c))

\* calculate_confidence without the return of 0.0 for no ACTIVE signal
calculate_confidence_unguarded(signals, seq_events, rel_events) ==
    ClampConfidence(
        80
        - (IF Len(ActiveSignals(signals)) > 1 THEN 20 ELSE 0)
        + (IF seq_events # <<>> THEN 20 ELSE 0)
        + (IF rel_events # <<>> THEN 20 ELSE 0))

calculate_confidence(signals, seq_events, rel_events) ==
    IF ActiveSignals(signals) = <<>> THEN 0
    ELSE ClampConfidence(
             80
             - (IF Len(ActiveSignals(signals)) > 1 THEN 20 ELSE 0)
             + (IF seq_events # <<>> THEN 20 ELSE 0)
             + (IF rel_events # <<>> THEN 20 ELSE 0))

\* LowConfidence that also filters a confidence equal to the threshold
LowConfidenceInclusive(c) == c <= 60

\* "if confidence < 0.6:  # Low confidence exchanges are filtered out"
LowConfidence(c) == c < 60

\* The BasketExchange object _analyze_exchange_window creates
BasketExchange(start_time, end_time, signals, seq_events, rel_events, type, conf) ==
    [kind |-> "BasketExchange",
     start_time |-> start_time,
     end_time |-> end_time,
     duration_seconds |-> end_time - start_time,
     operator_signals |-> signals,
     sequence_events |-> seq_events,
     relay_events |-> rel_events,
     exchange_type |-> type,
     confidence |-> conf]

\* _analyze_exchange_window once the events of the window [start_time,
\* end_time] are known: return None without signals, classify and score,
\* return None below the threshold, else the exchange
AnalyzeEvents(start_time, end_time, signals, seq_events, rel_events) ==
    /\ operator_signals' = signals
    /\ sequence_events' = seq_events
    /\ relay_events' = rel_events
    /\ IF signals = <<>>
       THEN /\ exchange' = None
            /\ classify_pc' = "returned"
            /\ UNCHANGED <<exchange_type, confidence>>
       ELSE /\ exchange_type' = classify_exchange(signals, seq_events, rel_events)
            /\ confidence' = calculate_confidence(signals, seq_events, rel_events)
            /\ classify_pc' = "classified"
            /\ exchange' =
                   IF LowConfidence(confidence') THEN None
                   ELSE BasketExchange(start_time, end_time, signals, seq_events,
                                       rel_events, exchange_type', confidence')

\* _analyze_exchange_window called on the events of one window, here the
\* 30 s from 0 that the dashboard puts around a press at 10 s
ClassifyWindow ==
    /\ classify_pc = "ready"
    /\ AnalyzeEvents(0, 30, operator_signals, sequence_events, relay_events)
    /\ UNCHANGED <<decoderVars, identifyVars, analyzeVars>>

SignalStates == {"ACTIVE", "INACTIVE"}

SignalLists ==
    UNION {[1..n -> {[payload |-> [state_name |-> st]] : st \in SignalStates}]
           : n \in 0..MaxSignals}

\* n events of one message type; only their number reaches the classifier
EventsOfType(name, n) == [i \in 1..n |-> [type |-> name]]

----------------------------------------------------------------------------
(* BasketMetricsDashboard.analyze_basket_exchanges                         *)
(* (basket_metrics_dashboard.py) over the telemetry table the logger       *)
(* fills.  A time is a number of seconds; the texts SQLite and Python make *)
(* of it are <<day, separator, second of the day>>: the date and the time  *)
(* of day are zero-padded, so texts compare as these triples do.           *)

SecondsPerDay == 24 * 60 * 60

\* received_timestamp DATETIME DEFAULT CURRENT_TIMESTAMP of the logger's
\* schema: 'YYYY-MM-DD HH:MM:SS', the separator a space (code 32)
CurrentTimestamp(t) == <<t \div SecondsPerDay, 32, t % SecondsPerDay>>

\* datetime.isoformat(): 'YYYY-MM-DDTHH:MM:SS', the separator a 'T' (code 84)
IsoFormat(t) == <<t \div SecondsPerDay, 84, t % SecondsPerDay>>

\* datetime.fromisoformat(): reads either separator
FromIsoFormat(text) == text[1] * SecondsPerDay + text[3]

\* a <= b of two texts, as SQLite compares TEXT values
TextLeq(a, b) ==
    \/ a[1] < b[1]
    \/ a[1] = b[1] /\ a[2] < b[2]
    \/ a[1] = b[1] /\ a[2] = b[2] /\ a[3] <= b[3]

\* "received_timestamp BETWEEN ? AND ?"
SqlBetween(text, lo, hi) == TextLeq(lo, text) /\ TextLeq(text, hi)

\* ORDER BY controller_timestamp ASC (the rows here have distinct values)
RECURSIVE OrderByControllerTimestamp(_)
OrderByControllerTimestamp(rows) ==
    IF rows = <<>> THEN <<>>
    ELSE LET least == CHOOSE i \in 1..Len(rows) :
                          \A j \in 1..Len(rows) :
                              rows[i].controller_timestamp <= rows[j].controller_timestamp
             rest == [k \in 1..(Len(rows) - 1) |->
                          IF k < least THEN rows[k] ELSE rows[k + 1]]
         IN <<rows[least]>> \o OrderByControllerTimestamp(rest)

\* The query for SPLITTER_OPERATOR signals and the list built of its rows
FetchOperatorEvents(rows) ==
    LET selected == SelectSeq(rows, LAMBDA row :
                        /\ row.message_type_name = "DIGITAL_INPUT"
                        /\ row.payload.input_type_name = "SPLITTER_OPERATOR")
        ordered == OrderByControllerTimestamp(selected)
    IN [i \in 1..Len(ordered) |->
           [timestamp |-> FromIsoFormat(ordered[i].received_timestamp),
            controller_time |-> ordered[i].controller_timestamp,
            payload |-> ordered[i].payload]]

\* _identify_exchange_windows of the dashboard: one window per ACTIVE
\* signal, from 10 s before it to 20 s after it
RECURSIVE dashboard_identify_exchange_windows(_)
dashboard_identify_exchange_windows(events) ==
    IF events = <<>> THEN <<>>
    ELSE (IF Head(events).payload.state_name = "ACTIVE"
          THEN << <<Head(events).timestamp - 10, Head(events).timestamp + 20>> >>
          ELSE <<>>)
         \o dashboard_identify_exchange_windows(Tail(events))

\* The queries of _analyze_exchange_window for the events of one message
\* type inside a window; the rows are in received_timestamp order
FetchWindowEvents(rows, type_name, start_time, end_time) ==
    LET selected == SelectSeq(rows, LAMBDA row :
                        /\ SqlBetween(row.received_timestamp,
                                      IsoFormat(start_time), IsoFormat(end_time))
                        /\ row.message_type_name = type_name)
    IN [i \in 1..Len(selected) |->
           [timestamp |-> FromIsoFormat(selected[i].received_timestamp),
            payload |-> selected[i].payload]]

\* analyze_basket_exchanges up to the windows
DashQuery ==
    /\ analyze_pc = "start"
    /\ dash_operator_events' = FetchOperatorEvents(db_rows)
    /\ IF dash_operator_events' = <<>>
       THEN /\ analyze_pc' = "done"
            /\ UNCHANGED exchange_windows
       ELSE /\ exchange_windows' =
                   dashboard_identify_exchange_windows(dash_operator_events')
            /\ analyze_pc' = "windows"
    /\ UNCHANGED <<db_rows, window_index, exchanges>>
    /\ UNCHANGED <<decoderVars, identifyVars, classifyVars, findVars>>

\* One iteration of "for start_time, end_time in exchange_windows"
DashAnalyzeWindow ==
    /\ analyze_pc = "windows"
    /\ window_index < Len(exchange_windows)
    /\ window_index' = window_index + 1
    /\ LET start_time == exchange_windows[window_index + 1][1]
           end_time == exchange_windows[window_index + 1][2]
       IN AnalyzeEvents(start_time, end_time,
              SelectSeq(dash_operator_events, LAMBDA ev :
                  start_time <= ev.timestamp /\ ev.timestamp <= end_time),
              FetchWindowEvents(db_rows, "SEQUENCE_EVENT", start_time, end_time),
              FetchWindowEvents(db_rows, "RELAY_EVENT", start_time, end_time))
    /\ exchanges' = IF exchange' # None THEN Append(exchanges, exchange')
                    ELSE exchanges
    /\ UNCHANGED <<db_rows, dash_operator_events, exchange_windows, analyze_pc>>
    /\ UNCHANGED <<decoderVars, identifyVars, findVars>>

\* "return exchanges"
DashReturn ==
    /\ analyze_pc = "windows"
    /\ window_index = Len(exchange_windows)
    /\ analyze_pc' = "done"
    /\ UNCHANGED <<db_rows, dash_operator_events, exchange_windows,
                   window_index, exchanges>>
    /\ UNCHANGED <<decoderVars, identifyVars, classifyVars, findVars>>

\* Seconds at which the logger received the rows: two moments 3 s apart,
\* one ten minutes later, and two either side of a midnight
ReceivedTimes == {100, 103, 700, 86395, 86402}

\* What a row holds besides its timestamps
RowContents ==
    {[message_type_name |-> "DIGITAL_INPUT",
      payload |-> [input_type_name |-> "SPLITTER_OPERATOR", state_name |-> "ACTIVE"]],
     [message_type_name |-> "DIGITAL_INPUT",
      payload |-> [input_type_name |-> "SPLITTER_OPERATOR", state_name |-> "INACTIVE"]],
     [message_type_name |-> "SEQUENCE_EVENT",
      payload |-> [input_type_name |-> "", state_name |-> ""]],
     [message_type_name |-> "RELAY_EVENT",
      payload |-> [input_type_name |-> "", state_name |-> ""]]}

\* controller_timestamp of the i-th row, in ms since the controller
\* started: it grows from row to row and starts over when the controller
\* restarts after the row numbered restart
ControllerTimestamp(i, restart) ==
    IF i <= restart THEN 500000 + 1000 * i ELSE 1000 * i

\* The table of n rows with the given times, contents and restart: rows in
\* the order received, stamped by the database
Table(n, times, contents, restart) ==
    [i \in 1..n |->
        [received_timestamp |-> CurrentTimestamp(times[i]),
         controller_timestamp |-> ControllerTimestamp(i, restart),
         message_type_name |-> contents[i].message_type_name,
         payload |-> contents[i].payload]]

----------------------------------------------------------------------------
(* LogSplitterAnalyzer.find_sequences (time_domain_analyzer.py)           *)

\* event_type of the events fed: SEQUENCE_STARTED, SEQUENCE_STEP_COMPLETE,
\* SEQUENCE_COMPLETE, SEQUENCE_ABORTED
SequenceEventTypes == {0, 1, 2, 5}

\* The rows get_sequence_events returns, ORDER BY received_timestamp: the
\* i-th received at second i, its elapsed time 100 ms per event so far
SequenceEvents(n, types) ==
    [i \in 1..n |->
        [received_timestamp |-> i,
         payload |-> [event_type |-> types[i], elapsed_time_ms |-> 100 * i]]]

\* The dict made for a SEQUENCE_STARTED event
NewSequence(event) ==
    [start_time |-> event.received_timestamp,
     start_event |-> event,
     end_time |-> None,
     end_event |-> None,
     status |-> "IN_PROGRESS",
     duration_ms |-> None]

\* The open sequence ended by a SEQUENCE_COMPLETE or SEQUENCE_ABORTED event
EndedSequence(sequence, event, status) ==
    [sequence EXCEPT !.end_time = event.received_timestamp,
                     !.end_event = event,
                     !.status = status,
                     !.duration_ms = event.payload.elapsed_time_ms]

\* One iteration of "for event in sequence_events"
FindStep ==
    /\ find_pc = "loop"
    /\ found_index < Len(found_events)
    /\ found_index' = found_index + 1
    /\ LET event == found_events[found_index + 1]
           event_type == event.payload.event_type
       IN IF event_type = 0
          THEN /\ sequences' =
                      IF current_sequence # None
                      THEN Append(sequences,
                               [current_sequence EXCEPT !.status = "INCOMPLETE"])
                      ELSE sequences
               /\ current_sequence' = NewSequence(event)
          ELSE IF event_type = 2 /\ current_sequence # None
          THEN /\ sequences' = Append(sequences,
                       EndedSequence(current_sequence, event, "COMPLETED"))
               /\ current_sequence' = None
          ELSE IF event_type = 5 /\ current_sequence # None
          THEN /\ sequences' = Append(sequences,
                       EndedSequence(current_sequence, event, "ABORTED"))
               /\ current_sequence' = None
          ELSE UNCHANGED <<current_sequence, sequences>>
    /\ UNCHANGED <<found_events, find_pc>>
    /\ UNCHANGED <<decoderVars, identifyVars, classifyVars, dashVars>>

\* FindReturn that returns the closed sequences only
FindReturnDropOpen ==
    /\ find_pc = "loop"
    /\ found_index = Len(found_events)
    /\ find_pc' = "done"
    /\ UNCHANGED <<found_events, found_index, current_sequence, sequences>>
    /\ UNCHANGED <<decoderVars, identifyVars, classifyVars, dashVars>>

\* After the loop: "Handle final incomplete sequence" and return
FindReturn ==
    /\ find_pc = "loop"
    /\ found_index = Len(found_events)
    /\ sequences' =
           IF current_sequence # None
           THEN Append(sequences, [current_sequence EXCEPT !.status = "INCOMPLETE"])
           ELSE sequences
    /\ find_pc' = "done"
    /\ UNCHANGED <<found_events, found_index, current_sequence>>
    /\ UNCHANGED <<decoderVars, identifyVars, classifyVars, dashVars>>

----------------------------------------------------------------------------
(* Specifications *)

DecoderInit ==
    /\ last_sequence = <<>>
    /\ messages_received = 0
    /\ messages_decoded = 0
    /\ decode_errors = 0
    /\ binary_data = <<>>
    /\ result = None
    /\ seq_reports = <<>>
    /\ console = <<>>
    /\ call_log = <<>>
    /\ chan_pc = [c \in Channels |-> "idle"]
    /\ chan_data = [c \in Channels |-> <<>>]
    /\ telemetry = <<>>
    /\ db_writes = 0

IdentifyIdle ==
    /\ operator_events = <<>>
    /\ event_index = 0
    /\ current_window_start = NoneTime
    /\ last_signal_time = NoneTime
    /\ windows = <<>>
    /\ identify_pc = "idle"

\* _identify_exchange_windows entered with its argument
IdentifyInit ==
    /\ operator_events \in EventLists
    /\ event_index = 0
    /\ current_window_start = NoneTime
    /\ last_signal_time = NoneTime
    /\ windows = <<>>
    /\ identify_pc = "loop"

ClassifyIdle ==
    /\ operator_signals = <<>>
    /\ sequence_events = <<>>
    /\ relay_events = <<>>
    /\ exchange_type = "UNSET"
    /\ confidence = 0
    /\ exchange = None
    /\ classify_pc = "idle"

FindIdle ==
    /\ found_events = <<>>
    /\ found_index = 0
    /\ current_sequence = None
    /\ sequences = <<>>
    /\ find_pc = "idle"

DashIdle ==
    /\ db_rows = <<>>
    /\ dash_operator_events = <<>>
    /\ exchange_windows = <<>>
    /\ window_index = 0
    /\ exchanges = <<>>
    /\ analyze_pc = "idle"

AnalyzeIdle == DashIdle /\ FindIdle

\* find_sequences entered, get_sequence_events having returned the events
\* of type 23 in the order received
FindInit ==
    /\ \E n \in 0..MaxFound :
           \E types \in [1..n -> SequenceEventTypes] :
               found_events = SequenceEvents(n, types)
    /\ found_index = 0
    /\ current_sequence = None
    /\ sequences = <<>>
    /\ find_pc = "loop"

\* The events of one window, before they are classified
ClassifyInit ==
    /\ operator_signals \in SignalLists
    /\ sequence_events \in {EventsOfType("SEQUENCE_EVENT", n) : n \in 0..MaxSequenceEvents}
    /\ relay_events \in {EventsOfType("RELAY_EVENT", n) : n \in 0..MaxRelayEvents}
    /\ exchange_type = "UNSET"
    /\ confidence = 0
    /\ exchange = None
    /\ classify_pc = "ready"

\* analyze_basket_exchanges entered, the table as the logger left it
AnalyzeInit ==
    /\ \E n \in 0..MaxRows :
           \E times \in [1..n -> ReceivedTimes], contents \in [1..n -> RowContents],
              restart \in 0..n :
               /\ \A i \in 1..(n - 1) : times[i] <= times[i + 1]
               /\ db_rows = Table(n, times, contents, restart)
    /\ dash_operator_events = <<>>
    /\ exchange_windows = <<>>
    /\ window_index = 0
    /\ exchanges = <<>>
    /\ analyze_pc = "start"
    /\ FindIdle

Init == DecoderInit /\ IdentifyIdle /\ ClassifyIdle /\ AnalyzeIdle

\* The logger's MQTT callback, once per delivered message
OnMessage ==
    /\ messages_received < MaxCalls
    /\ \E data \in Frames : handle_protobuf_message(data)
    /\ UNCHANGED <<identifyVars, classifyVars, analyzeVars>>

Next == OnMessage

Spec == Init /\ [][Next]_vars

\* One call of decode_message on a frame with a flags byte
DecodeFlags ==
    /\ messages_received = 0
    /\ \E msg_type \in {16, 18, 22}, flags \in 0..255 :
           decode_message(FlagFrame(msg_type, flags))
    /\ UNCHANGED <<telemetry, db_writes>>
    /\ UNCHANGED <<identifyVars, classifyVars, analyzeVars>>

\* One call of decode_message on a SYSTEM_ERROR frame
DecodeSystemError ==
    /\ messages_received = 0
    /\ \E desc_length \in 0..4, n \in 0..3 :
           \E desc \in [1..n -> DescriptionBytes] :
               decode_message(ErrorFrame(desc_length, desc))
    /\ UNCHANGED <<telemetry, db_writes>>
    /\ UNCHANGED <<identifyVars, classifyVars, analyzeVars>>

NextPayloads == DecodeFlags \/ DecodeSystemError

\* The decoder called once on a frame drawn from the payload variants
SpecPayloads == Init /\ [][NextPayloads]_vars

\* A channel delivers a frame: its call of decode_message begins
ChannelDeliver ==
    /\ messages_received < MaxChannelFrames
    /\ \E c \in Channels, data \in ChannelFrames : ChannelCheck(c, data)
    /\ UNCHANGED <<telemetry, db_writes>>
    /\ UNCHANGED <<identifyVars, classifyVars, analyzeVars>>

\* A channel's call of decode_message runs to its end
ChannelFinish ==
    /\ \E c \in Channels : ChannelWrite(c)
    /\ UNCHANGED <<telemetry, db_writes>>
    /\ UNCHANGED <<identifyVars, classifyVars, analyzeVars>>

NextChannels == ChannelDeliver \/ ChannelFinish

\* One decoder called from two threads, nothing serializing the calls
SpecChannels == Init /\ [][NextChannels]_vars

\* The same callback fed only well-formed frames
OnTrackerMessage ==
    /\ messages_received < MaxTrackerCalls
    /\ \E data \in TrackerFrames : handle_protobuf_message(data)
    /\ UNCHANGED <<identifyVars, classifyVars, analyzeVars>>

NextTracker == OnTrackerMessage

SpecTracker == Init /\ [][NextTracker]_vars

\* The window identifier run on one list of events
InitWindows == DecoderInit /\ IdentifyInit /\ ClassifyIdle /\ AnalyzeIdle

NextWindows == IdentifyStep \/ IdentifyReturn

SpecWindows == InitWindows /\ [][NextWindows]_vars

\* The classifier run on the events of one window
InitClassifier == DecoderInit /\ IdentifyIdle /\ ClassifyInit /\ AnalyzeIdle

NextClassifier == ClassifyWindow

SpecClassifier == InitClassifier /\ [][NextClassifier]_vars

\* find_sequences run on one list of sequence events
InitSequences == DecoderInit /\ IdentifyIdle /\ ClassifyIdle /\ DashIdle /\ FindInit

NextSequences == FindStep \/ FindReturn

SpecSequences == InitSequences /\ [][NextSequences]_vars

\* The dashboard's analysis run on one table
InitDashboard == DecoderInit /\ IdentifyIdle /\ ClassifyIdle /\ AnalyzeInit

NextDashboard == DashQuery \/ DashAnalyzeWindow \/ DashReturn

SpecDashboard == InitDashboard /\ [][NextDashboard]_vars

----------------------------------------------------------------------------
(* Properties *)

Last(seq) == seq[Len(seq)]

MaxOf(S) == CHOOSE x \in S : \A y \in S : y <= x

\* The latest call passed the framing checks of decode_message
Framed == messages_received > 0 /\ Len(binary_data) >= 7
              /\ binary_data[1] = Len(binary_data)

\* C1: a buffer of at least 7 bytes is rejected as a size mismatch exactly
\* when its first byte plus 1 differs from its length, and then no message
\* is returned.
C1_LengthPlusOne ==
    (messages_received > 0 /\ Len(binary_data) >= 7) =>
        /\ (binary_data[1] + 1 # Len(binary_data) =>
                result = None /\ console = <<"ERROR: Size mismatch">>)
        /\ (binary_data[1] + 1 = Len(binary_data) =>
                console # <<"ERROR: Size mismatch">>)

\* C2: per message type, the first frame is reported First, a frame whose
\* sequence is (last + 1) mod 256 Continues, any other Gap with expected =
\* (last + 1) mod 256, where last is the sequence of the previous frame of
\* that type.
C2_SequenceVerdicts ==
    \A i \in 1..Len(seq_reports) :
        LET r == seq_reports[i]
            earlier == {j \in 1..(i - 1) : seq_reports[j].type = r.type}
        IN IF earlier = {}
           THEN r.verdict = "First"
           ELSE LET last == seq_reports[MaxOf(earlier)].sequence
                IN /\ r.expected = (last + 1) % 256
                   /\ r.verdict = IF r.sequence = (last + 1) % 256
                                  THEN "Continues" ELSE "Gap"

\* C2 witness: type 0x10 with sequences 5, 6, 7, 9 is reported First,
\* Continues, Continues, Gap{expected 8, actual 9}.
C2_Witness ==
    /\ Len(seq_reports) = 4
    /\ \A i \in 1..4 : seq_reports[i].type = 16
    /\ [i \in 1..4 |-> seq_reports[i].sequence] = <<5, 6, 7, 9>>
    /\ [i \in 1..4 |-> seq_reports[i].verdict]
           = <<"First", "Continues", "Continues", "Gap">>
    /\ seq_reports[4].expected = 8

\* Active operator signals among the events the loop has consumed, as times
TriggerTimes ==
    LET seen == SelectSeq(SubSeq(operator_events, 1, event_index),
                          IsActiveOperatorSignal)
    IN [i \in 1..Len(seen) |-> seen[i].timestamp]

\* Positions in a list of trigger times that follow a gap above the timeout
Breaks(times) == {i \in 2..Len(times) : times[i] - times[i - 1] > 60}

\* C3: while the loop runs, the open window holds exactly the triggers since
\* the latest gap strictly above the timeout (a gap equal to it does not
\* split), and one window was closed per such gap.
C3_ExtendWithinTimeout ==
    identify_pc = "loop" =>
        LET times == TriggerTimes
            breaks == Breaks(times)
        IN /\ Len(windows) = Cardinality(breaks)
           /\ IF times = <<>>
              THEN current_window_start = NoneTime /\ last_signal_time = NoneTime
              ELSE /\ last_signal_time = Last(times)
                   /\ current_window_start =
                          times[IF breaks = {} THEN 1 ELSE MaxOf(breaks)]

\* C3 witness: triggers at 20 and 80, a gap equal to the timeout, share the
\* open window.
C3_Witness ==
    /\ identify_pc = "loop"
    /\ TriggerTimes = <<20, 80>>
    /\ current_window_start = 20
    /\ last_signal_time = 80
    /\ windows = <<>>

\* First and last trigger position of the k-th window over a list of times
RunFirst(times, k) ==
    IF k = 1 THEN 1
    ELSE CHOOSE i \in Breaks(times) :
             Cardinality({j \in Breaks(times) : j <= i}) = k - 1

RunLast(times, k) ==
    IF k = Cardinality(Breaks(times)) + 1 THEN Len(times)
    ELSE RunFirst(times, k + 1) - 1

C5_Original ==
    classify_pc = "classified" =>
        /\ (Len(sequence_events) >= 2 /\ relay_events = <<>>
                => exchange_type = "SEQUENCE")
        /\ (Len(sequence_events) >= 1 /\ Len(relay_events) >= 1
                => exchange_type = "MIXED")
        /\ (sequence_events = <<>> /\ Len(relay_events) >= 1
                => exchange_type = "MANUAL")
        /\ (sequence_events = <<>> /\ relay_events = <<>>
                => exchange_type = "BUTTON_ONLY")

\* C5 amended: Sequence with at least 2 sequence events and no relay event,
\* Mixed with at least 2 sequence events and a relay event, Manual with a
\* relay event and fewer than 2 sequence events, ButtonOnly with no relay
\* event and fewer than 2 sequence events.
C5_Classification ==
    classify_pc = "classified" =>
        exchange_type =
            CASE Len(sequence_events) >= 2 /\ Len(relay_events) = 0 -> "SEQUENCE"
              [] Len(sequence_events) >= 2 /\ Len(relay_events) >= 1 -> "MIXED"
              [] Len(sequence_events) < 2 /\ Len(relay_events) >= 1 -> "MANUAL"
              [] Len(sequence_events) < 2 /\ Len(relay_events) = 0 -> "BUTTON_ONLY"

\* C5 witness: one sequence event with a relay event is classified Manual.
C5_Witness ==
    /\ classify_pc = "classified"
    /\ Len(sequence_events) = 1
    /\ Len(relay_events) >= 1
    /\ exchange_type = "MANUAL"

\* Signals of the window whose state_name is ACTIVE
NumActive ==
    Cardinality({i \in 1..Len(operator_signals) :
                     operator_signals[i].payload.state_name = "ACTIVE"})

\* C6: with at least one active trigger, confidence is 0.8, minus 0.2 for
\* more than one trigger, plus 0.2 for any sequence event, plus 0.2 for any
\* relay event, limited to [0.6, 1.0]; one trigger with two sequence events
\* scores 1.0 and one trigger alone 0.8.
C6_Confidence ==
    (classify_pc = "classified" /\ NumActive >= 1) =>
        LET raw == 80 - (IF NumActive > 1 THEN 20 ELSE 0)
                      + (IF Len(sequence_events) >= 1 THEN 20 ELSE 0)
                      + (IF Len(relay_events) >= 1 THEN 20 ELSE 0)
        IN /\ confidence = IF raw > 100 THEN 100 ELSE IF raw < 60 THEN 60 ELSE raw
           /\ confidence >= 60
           /\ confidence <= 100
           /\ (NumActive = 1 /\ Len(sequence_events) = 2 /\ relay_events = <<>>
                   => confidence = 100)
           /\ (NumActive = 1 /\ sequence_events = <<>> /\ relay_events = <<>>
                   => confidence = 80)

\* C6 witness: two triggers, sequence events and relay events: 0.8 - 0.2 +
\* 0.2 + 0.2, limited to 1.0.
C6_Witness ==
    /\ classify_pc = "classified"
    /\ NumActive = 2
    /\ Len(sequence_events) >= 1
    /\ Len(relay_events) >= 1
    /\ confidence = 100

\* C7: a frame whose type is not 0x10..0x17 yields an error and no message.
C7_UnknownTypeFails ==
    (Framed /\ binary_data[2] \notin 16..23) => result = None

\* Payload lengths the table of the specification gives per type
TableLengths(msg_type) ==
    CASE msg_type \in {16, 17, 18, 21} -> {3}
      [] msg_type = 19 -> {8}
      [] msg_type = 22 -> {12}
      [] msg_type = 23 -> {4}
      [] msg_type = 20 -> 3..27

\* C8: a framed frame of a known type decodes exactly when its payload has
\* the length of the table (3 bytes for Digital-Input) and fails otherwise.
C8_PayloadLength ==
    (Framed /\ binary_data[2] \in 16..23) =>
        IF Len(binary_data) - 7 \in TableLengths(binary_data[2])
        THEN result # None /\ result.payload # None
        ELSE result = None

\* C9: a call returns either a message with a decoded payload or nothing,
\* and no stored row has an empty payload.
C9_NoEmptyPayload ==
    /\ result # None => result.payload # None
    /\ \A i \in 1..Len(telemetry) : telemetry[i].payload_json # EmptyDict

\* C10: a frame reported as a gap is returned decoded and stored like any
\* other, and the last-seen entry of its type becomes its own sequence.
C10_GapDoesNotBlock ==
    (messages_received > 0 /\ Len(seq_reports) = messages_received
         /\ Last(seq_reports).verdict = "Gap") =>
        /\ result # None
        /\ result.payload # None
        /\ result.sequence = binary_data[3]
        /\ messages_decoded = messages_received
        /\ Len(telemetry) = messages_received
        /\ last_sequence[binary_data[2]] = binary_data[3]
        /\ last_sequence[Last(seq_reports).type] = Last(seq_reports).sequence

\* C10 witness: sequences 1 then 5 of type 0x10: the second is a gap, is
\* returned, and last-seen is 5.
C10_Witness ==
    /\ Len(seq_reports) = 2
    /\ seq_reports[1].type = 16 /\ seq_reports[1].sequence = 1
    /\ seq_reports[2].type = 16 /\ seq_reports[2].sequence = 5
    /\ seq_reports[2].verdict = "Gap" /\ seq_reports[2].expected = 2
    /\ result # None /\ result.payload # None
    /\ last_sequence[16] = 5

\* A step in which decode_message ran
DecodeStep == messages_received' = messages_received + 1

\* The call returned a message with a decoded payload
Decoded(r) == r # None /\ r.payload # None

\* C11: a call that returns a decoded event sets the entry of its type to
\* its sequence and leaves the other entries alone; a call that returns no
\* decoded event (too short, length mismatch, unknown type, payload size
\* mismatch) leaves the whole map unchanged.
C11_SequenceState ==
    [][DecodeStep =>
          IF Decoded(result')
          THEN /\ DOMAIN last_sequence' = DOMAIN last_sequence \cup {binary_data'[2]}
               /\ last_sequence'[binary_data'[2]] = binary_data'[3]
               /\ \A t \in DOMAIN last_sequence :
                      t # binary_data'[2] => last_sequence'[t] = last_sequence[t]
          ELSE last_sequence' = last_sequence]_vars

\* C15: a call with a buffer of fewer than 7 bytes returns None, reports
\* "Message too short", counts one decode error, and leaves the sequence
\* map, the sequence reports and the stored rows as they were.
C15_TooShortRejected ==
    [][(DecodeStep /\ Len(binary_data') < 7) =>
          /\ result' = None
          /\ console' = <<"ERROR: Message too short">>
          /\ decode_errors' = decode_errors + 1
          /\ messages_decoded' = messages_decoded
          /\ last_sequence' = last_sequence
          /\ seq_reports' = seq_reports
          /\ telemetry' = telemetry]_vars

\* C15 witness: a 6-byte buffer arrives after a frame of type 0x10 was
\* tracked; it is the only error counted and the map still holds that frame.
C15_Witness ==
    /\ messages_received = 2
    /\ Len(binary_data) = 6
    /\ result = None
    /\ decode_errors = 1
    /\ DOMAIN last_sequence = {16}
    /\ last_sequence[16] = 5
    /\ Len(telemetry) = 1

\* C16: every buffer for which a message is returned has a size byte from 6
\* to 33, and a buffer of at least 7 bytes whose size byte is outside that
\* range yields no message.
C16_LengthInRange ==
    /\ result # None => (6 <= binary_data[1] /\ binary_data[1] <= 33)
    /\ (messages_received > 0 /\ Len(binary_data) >= 7
           /\ (binary_data[1] < 6 \/ binary_data[1] > 33)) => result = None

C12_OpenWindowFlushed ==
    identify_pc = "done" =>
        LET times == TriggerTimes
        IN /\ Len(windows) =
                  IF times = <<>> THEN 0 ELSE Cardinality(Breaks(times)) + 1
           /\ times # <<>> =>
                  /\ Last(windows)[1] = current_window_start - WindowLead
                  /\ Last(windows)[2] = Last(times) + WindowTail
           /\ \A i \in 1..Len(times) :
                  \E k \in 1..Len(windows) :
                      windows[k][1] <= times[i] /\ times[i] <= windows[k][2]

\* C12 witness: triggers at 0 and 100 s; the window opened at 100 s was
\* still open when the input ended and is returned as [70, 220].
C12_Witness ==
    /\ identify_pc = "done"
    /\ TriggerTimes = <<0, 100>>
    /\ current_window_start = 100
    /\ windows = << <<-30, 120>>, <<70, 220>> >>

\* C13 as stated: a window without an active trigger gets confidence 0.0
\* and the classification Unknown, and is not returned.
C13_Original ==
    (classify_pc = "classified" /\ NumActive = 0) =>
        /\ confidence = 0
        /\ exchange_type = "UNKNOWN"
        /\ exchange = None

\* C13 amended: a window without an active trigger gets confidence 0.0 and
\* is not returned, whatever sequence and relay events it holds; its
\* classification is still the one its sequence and relay events give
\* (never Unknown), and a window without any operator signal is not
\* classified at all.
C13_ZeroTriggers ==
    /\ (classify_pc = "classified" /\ NumActive = 0) =>
           /\ confidence = 0
           /\ exchange = None
           /\ exchange_type =
                  IF Len(sequence_events) >= 2
                  THEN IF Len(relay_events) >= 1 THEN "MIXED" ELSE "SEQUENCE"
                  ELSE IF Len(relay_events) >= 1 THEN "MANUAL" ELSE "BUTTON_ONLY"
    /\ classify_pc = "returned" =>
           /\ operator_signals = <<>>
           /\ exchange = None
           /\ exchange_type = "UNSET"

\* C13 witness: one INACTIVE signal with three sequence events and two
\* relay events: confidence 0, classified MIXED, nothing returned.
C13_Witness ==
    /\ classify_pc = "classified"
    /\ Len(operator_signals) = 1
    /\ NumActive = 0
    /\ Len(sequence_events) = 3
    /\ Len(relay_events) = 2
    /\ confidence = 0
    /\ exchange_type = "MIXED"
    /\ exchange = None

\* C14: a classified window is returned as an exchange exactly when its
\* confidence is at least 0.6, the exchange carries that classification
\* and confidence, and every window with an active trigger is returned.
C14_AcceptanceThreshold ==
    classify_pc = "classified" =>
        /\ (exchange # None) <=> (confidence >= 60)
        /\ NumActive >= 1 => exchange # None
        /\ exchange # None =>
               /\ exchange.confidence = confidence
               /\ exchange.exchange_type = exchange_type
               /\ exchange.operator_signals = operator_signals

\* C14 witness: two active triggers and nothing else score 0.8 - 0.2, the
\* threshold itself, and the window is returned.
C14_Witness ==
    /\ classify_pc = "classified"
    /\ NumActive = 2
    /\ sequence_events = <<>>
    /\ relay_events = <<>>
    /\ confidence = 60
    /\ exchange # None
    /\ exchange.exchange_type = "BUTTON_ONLY"

\* C18: no call raises (each returns None or a message), and a frame
\* decoded after nothing but rejected frames is handled as the first frame
\* of a fresh decoder would be: reported First, with no diagnostics.
C18_RejectedFramesLeaveNoTrace ==
    /\ result.kind \in {"None", "message"}
    /\ (Decoded(result) /\ messages_decoded = 1) =>
           /\ console = <<>>
           /\ Last(seq_reports).verdict = "First"

\* Seconds at which the rows of the table were received
RowTimes == {FromIsoFormat(db_rows[i].received_timestamp) : i \in 1..Len(db_rows)}

\* Rows of the table with the given type and state
RowsOf(type_name, state_name) ==
    {i \in 1..Len(db_rows) :
        /\ db_rows[i].message_type_name = type_name
        /\ db_rows[i].payload.state_name = state_name}

\* C19: a table of one operator trigger and two sequence events, all
\* received within 5 s, gives exactly one exchange, classified SEQUENCE,
\* with confidence at least 0.6.
C19_EndToEnd ==
    (/\ analyze_pc = "done"
     /\ Len(db_rows) = 3
     /\ Cardinality(RowsOf("DIGITAL_INPUT", "ACTIVE")) = 1
     /\ Cardinality(RowsOf("SEQUENCE_EVENT", "")) = 2
     /\ \A t1, t2 \in RowTimes : t1 - t2 <= 5) =>
        /\ Len(exchanges) = 1
        /\ exchanges[1].exchange_type = "SEQUENCE"
        /\ exchanges[1].confidence >= 60

\* C20: the exchanges are returned in chronological order: neither the
\* start nor the end of an exchange is later than that of the next one.
C20_ChronologicalOrder ==
    \A i \in 1..(Len(exchanges) - 1) :
        /\ exchanges[i].start_time <= exchanges[i + 1].start_time
        /\ exchanges[i].end_time <= exchanges[i + 1].end_time

\* Rows of the table of the given type received inside [start_time, end_time]
RowsInside(type_name, start_time, end_time) ==
    {i \in 1..Len(db_rows) :
        /\ db_rows[i].message_type_name = type_name
        /\ start_time <= FromIsoFormat(db_rows[i].received_timestamp)
        /\ FromIsoFormat(db_rows[i].received_timestamp) <= end_time}

\* C21: every exchange returned has duration = end - start and holds, per
\* kind, as many events as the table has rows of that kind received in
\* [start, end], both bounds included.
C21_RecordFields ==
    \A k \in 1..Len(exchanges) :
        LET x == exchanges[k]
        IN /\ x.duration_seconds = x.end_time - x.start_time
           /\ Len(x.operator_signals) =
                  Cardinality(RowsInside("DIGITAL_INPUT", x.start_time, x.end_time))
           /\ Len(x.sequence_events) =
                  Cardinality(RowsInside("SEQUENCE_EVENT", x.start_time, x.end_time))
           /\ Len(x.relay_events) =
                  Cardinality(RowsInside("RELAY_EVENT", x.start_time, x.end_time))

\* C22: two calls of decode_message with the same bytes return the same
\* value, whatever was decoded between them.
C22_Idempotent ==
    \A i, j \in 1..Len(call_log) :
        call_log[i].data = call_log[j].data => call_log[i].result = call_log[j].result

\* C22 witness: the same frame is decoded first and fourth, with two other
\* frames of its type in between; the fourth call reports a gap, the first
\* none, and both return the same decoded message.
C22_Witness ==
    /\ Len(call_log) = 4
    /\ call_log[1].data = call_log[4].data
    /\ call_log[2].data # call_log[1].data
    /\ call_log[3].data # call_log[1].data
    /\ call_log[2].data[2] = call_log[1].data[2]
    /\ seq_reports[1].verdict = "First"
    /\ seq_reports[4].verdict = "Gap"
    /\ call_log[4].result # None
    /\ call_log[4].result.payload # None
    /\ call_log[1].result = call_log[4].result

\* 0 or 1 for a decoded flag
BitOf(flag) == IF flag THEN 1 ELSE 0

\* The latest call was given a frame of the given type with a payload of
\* the given length, its size byte counting the whole frame
FrameOf(msg_type, payload_length) ==
    /\ Len(binary_data) = 7 + payload_length
    /\ binary_data[1] = Len(binary_data)
    /\ binary_data[2] = msg_type

SystemErrorFrame ==
    /\ Len(binary_data) >= 10
    /\ binary_data[1] = Len(binary_data)
    /\ binary_data[2] = 20

\* The description bytes the length byte and the payload allow
TakenBytes ==
    LET payload_length == Len(binary_data) - 7
        desc_length == binary_data[10]
        available == payload_length - 3
        taken == IF desc_length < available THEN desc_length ELSE available
    IN [i \in 1..taken |-> binary_data[10 + i]]

\* a text without its trailing NULs
TrimNul(text) ==
    LET keep == {i \in 1..Len(text) : \E j \in i..Len(text) : text[j] # 0}
    IN [i \in keep |-> text[i]]

\* C24 as stated: the description is, once NUL-trimmed, a text of
\* min(desc_len, payload length - 3) characters, one per byte taken.
C24_Original ==
    SystemErrorFrame =>
        /\ result # None
        /\ result.payload # None
        /\ result.payload.description = TrimNul(TakenBytes)

\* C24: a System-Error payload of 3 bytes or more decodes, also when
\* desc_len exceeds the bytes that remain; the description is made of the
\* first min(desc_len, payload length - 3) bytes after the fixed three, the
\* bytes above 127 among them dropped and the trailing NULs trimmed, so it
\* has min(desc_len, payload length - 3) characters before the trimming
\* when those bytes are ASCII and fewer otherwise.
C24_Truncation ==
    SystemErrorFrame =>
        /\ result # None
        /\ result.payload # None
        /\ result.payload.description =
               TrimNul(SelectSeq(TakenBytes, LAMBDA b : b <= 127))
        /\ Len(result.payload.description) <= Len(TakenBytes)
        /\ (\A i \in 1..Len(TakenBytes) : TakenBytes[i] <= 127) =>
               result.payload.description = TrimNul(TakenBytes)

\* C24 witness: desc_len is 4 and two bytes remain, "AA"; the frame decodes
\* to a description of those two characters
C24_Witness ==
    /\ binary_data = ErrorFrame(4, <<65, 65>>)
    /\ result # None
    /\ result.payload # None
    /\ result.payload.description = <<65, 65>>
    /\ messages_decoded = 1
    /\ decode_errors = 0

\* C25: after any sequence of calls of decode_message, messages_received
\* is the number of calls and every call was counted either as decoded or
\* as an error: messages_decoded + decode_errors = messages_received.
C25_StatisticsBalance ==
    /\ messages_received = Len(call_log)
    /\ messages_decoded + decode_errors = messages_received

\* Times of the consumed events that are SPLITTER_OPERATOR signals with
\* state True
ActiveTriggerTimes ==
    LET seen == SelectSeq(SubSeq(operator_events, 1, event_index),
                          LAMBDA ev : /\ ev.payload.input_type_name = "SPLITTER_OPERATOR"
                                      /\ ev.payload.state = TRUE)
    IN [i \in 1..Len(seen) |-> seen[i].timestamp]

\* C26: every window the identifier has emitted belongs to a run of active
\* triggers and satisfies start <= first trigger <= last trigger <= end, so
\* it holds an active trigger; likewise each window of the dashboard holds
\* the ACTIVE signal it was put around, and a window the dashboard scores
\* has an ACTIVE signal and a confidence other than 0.
C26_WindowHoldsTrigger ==
    /\ LET times == ActiveTriggerTimes
       IN /\ Len(windows) <= (IF times = <<>> THEN 0 ELSE Cardinality(Breaks(times)) + 1)
          /\ \A k \in 1..Len(windows) :
                 LET first == times[RunFirst(times, k)]
                     last == times[RunLast(times, k)]
                 IN /\ windows[k][1] <= first
                    /\ first <= last
                    /\ last <= windows[k][2]
                    /\ \E i \in 1..Len(times) :
                           windows[k][1] <= times[i] /\ times[i] <= windows[k][2]
    /\ \A k \in 1..Len(exchange_windows) :
           \E i \in 1..Len(dash_operator_events) :
               /\ dash_operator_events[i].payload.state_name = "ACTIVE"
               /\ exchange_windows[k][1] <= dash_operator_events[i].timestamp
               /\ dash_operator_events[i].timestamp <= exchange_windows[k][2]
    /\ (analyze_pc \in {"windows", "done"} /\ classify_pc = "classified") =>
           /\ \E i \in 1..Len(operator_signals) :
                  operator_signals[i].payload.state_name = "ACTIVE"
           /\ confidence # 0

\* C26 witness: an inactive signal at 0, a trigger at 80 and one at 141 that
\* closes its window: [50, 200] was opened by the trigger at 80, not by the
\* inactive signal, and holds it.
C26_Witness ==
    /\ identify_pc = "loop"
    /\ Len(operator_events) = 3
    /\ event_index = 3
    /\ ActiveTriggerTimes = <<80, 141>>
    /\ operator_events[1].timestamp = 0
    /\ operator_events[1].payload.input_type_name = "SPLITTER_OPERATOR"
    /\ operator_events[1].payload.state = FALSE
    /\ windows = << <<50, 200>> >>

\* The verdict the tracker gives a frame that follows another of its type
SerialVerdict(previous, sequence) ==
    SequenceCheck([t \in {16} |-> previous], 16, sequence).verdict

TriggerSpan(k) == <<windows[k][1] + WindowLead, windows[k][2] - WindowTail>>

\* The loop consumes an event that is not an active SPLITTER_OPERATOR signal
ConsumesNonTrigger ==
    /\ identify_pc = "loop"
    /\ event_index' = event_index + 1
    /\ LET event == operator_events[event_index + 1]
       IN \/ event.payload.input_type_name # "SPLITTER_OPERATOR"
          \/ event.payload.state # TRUE

\* C28: when the identifier has returned, each active trigger of the input
\* lies in the trigger span of exactly one window, every span begins and
\* ends at a trigger, and there are no windows for an input without
\* triggers and else one more than there are gaps above the timeout between
\* consecutive triggers; an event that is not an active trigger leaves the
\* open window and the closed windows as they are.
C28_Partition ==
    /\ [](identify_pc = "done" =>
            LET times == ActiveTriggerTimes
            IN /\ Len(windows) =
                      IF times = <<>> THEN 0
                      ELSE 1 + Cardinality({i \in 2..Len(times) :
                                               times[i] - times[i - 1] > operator_signal_timeout})
               /\ \A i \in 1..Len(times) :
                      Cardinality({k \in 1..Len(windows) :
                                      /\ TriggerSpan(k)[1] <= times[i]
                                      /\ times[i] <= TriggerSpan(k)[2]}) = 1
               /\ \A k \in 1..Len(windows) :
                      /\ \E i \in 1..Len(times) : times[i] = TriggerSpan(k)[1]
                      /\ \E i \in 1..Len(times) : times[i] = TriggerSpan(k)[2])
    /\ [][ConsumesNonTrigger =>
              UNCHANGED <<current_window_start, last_signal_time, windows>>]_vars

\* C28 witness: triggers at 0 and 100 with an inactive signal at 20 between
\* them were fed; two windows, their spans [0, 0] and [100, 100].
C28_Witness ==
    /\ identify_pc = "done"
    /\ Len(operator_events) = 3
    /\ ActiveTriggerTimes = <<0, 100>>
    /\ operator_events[2].timestamp = 20
    /\ operator_events[2].payload.state = FALSE
    /\ Len(windows) = 2
    /\ TriggerSpan(1) = <<0, 0>>
    /\ TriggerSpan(2) = <<100, 100>>

\* C29: the windows returned do not overlap: each ends before the next
\* begins, for the identifier by timeout and for the dashboard's.
C29_NonOverlapping ==
    /\ \A k \in 1..(Len(windows) - 1) : windows[k][2] < windows[k + 1][1]
    /\ \A k \in 1..(Len(exchange_windows) - 1) :
           exchange_windows[k][2] < exchange_windows[k + 1][1]

\* Positions of the SEQUENCE_STARTED events among the events consumed
StartPositions == {i \in 1..found_index : found_events[i].payload.event_type = 0}

\* The k-th of them
StartPosition(k) ==
    CHOOSE i \in StartPositions : Cardinality({j \in StartPositions : j <= i}) = k

\* Positions of the complete and abort events that follow the k-th start
\* before the next start
Closers(k) ==
    {j \in (StartPosition(k) + 1)..found_index :
        /\ found_events[j].payload.event_type \in {2, 5}
        /\ \A i \in StartPositions : ~(StartPosition(k) < i /\ i < j)}

\* C30: find_sequences has one open sequence at most, always IN_PROGRESS;
\* what it returns holds one record per SEQUENCE_STARTED event, in their
\* order; a record is COMPLETED or ABORTED after the first complete or
\* abort event that follows its start before the next start, and
\* INCOMPLETE without one (another start came, or the events ended); no
\* record is IN_PROGRESS; complete and abort events without an open
\* sequence add nothing.
C30_OneRecordPerStart ==
    /\ current_sequence # None => current_sequence.status = "IN_PROGRESS"
    /\ \A k \in 1..Len(sequences) :
           sequences[k].status \in {"COMPLETED", "ABORTED", "INCOMPLETE"}
    /\ find_pc = "done" =>
           /\ Len(sequences) = Cardinality(StartPositions)
           /\ \A k \in 1..Len(sequences) :
                  /\ sequences[k].start_event = found_events[StartPosition(k)]
                  /\ IF Closers(k) = {}
                     THEN /\ sequences[k].status = "INCOMPLETE"
                          /\ sequences[k].end_event = None
                     ELSE LET j == CHOOSE c \in Closers(k) : \A d \in Closers(k) : c <= d
                          IN /\ sequences[k].end_event = found_events[j]
                             /\ sequences[k].status =
                                    IF found_events[j].payload.event_type = 2
                                    THEN "COMPLETED" ELSE "ABORTED"

\* C30 witness: an abort without an open sequence, a start, a second start
\* and a complete were fed: two records, INCOMPLETE and COMPLETED.
C30_Witness ==
    /\ find_pc = "done"
    /\ Len(found_events) = 4
    /\ [i \in 1..4 |-> found_events[i].payload.event_type] = <<5, 0, 0, 2>>
    /\ Len(sequences) = 2
    /\ sequences[1].status = "INCOMPLETE"
    /\ sequences[1].start_time = 2
    /\ sequences[2].status = "COMPLETED"
    /\ sequences[2].start_time = 3
    /\ sequences[2].end_time = 4

=============================================================================
